---- MODULE Spec2Model ----
(***************************************************************************)
(* A model of hw0b_HelloWorld.cpp: the comparator functors, bubbleSort,    *)
(* recursiveSort and printNDVector, each as the steps its code takes.      *)
(***************************************************************************)
EXTENDS Integers, Sequences, FiniteSets, Bags, TLC

VARIABLES
    root,        \* the container passed to recursiveSort / bubbleSort / printNDVector
    depth,       \* nesting depth of root's static type (0: a scalar, 1: a flat container)
    given,       \* the comparator argument at the call site, or NoComparator
    compare,     \* the comparator parameter after the default argument is applied
    entry,       \* the function main calls
    pc,          \* position in the running function
    stack,       \* index of the current subContainer in each active range-for loop
    n, i, j, it, swapped,   \* bubbleSort's locals (it: position of the iterator, 1-based)
    called,      \* history: the holder as it was when the running bubbleSort was called
    origin,      \* history: for each position of holder, its position in `called`
    passLog,     \* history: exchanges of each pass of the running bubbleSort so far
    comparisons, \* history: calls of compare in the running bubbleSort so far
    root0,       \* history: root as it was at the outermost call
    out,         \* the characters written to std::cout
    depths,      \* printNDVector's depth argument in each active call
    marks,       \* history: for each scalar printed, where in out and at which nesting
    a, b, result \* arguments and results of one SumOfDigits call

sortVars  == <<n, i, j, it, swapped, called, origin, passLog, comparisons>>
printVars == <<out, depths, marks>>
digitVars == <<a, b, result>>
vars == <<root, depth, given, compare, entry, pc, stack, root0,
          sortVars, printVars, digitVars>>

----------------------------------------------------------------------------
(* Bounds of the model *)

\* longest flat sequence enumerated (main's samples of length 6 are added)
MaxLen == 3
\* flat sequences hold the integers -MaxVal..MaxVal and MultiDigit
MaxVal == 2
\* the values an arbitrary comparator table ranges over are 0..MaxAnyVal
MaxAnyVal == 1
\* most scalars and containers inside an enumerated nested container
MaxNodes == 6
\* nested containers hold the integers 1..MaxNestedVal
MaxNestedVal == 2
\* SumOfDigits is applied to the integers -MaxDigitArg..MaxDigitArg
MaxDigitArg == 25

----------------------------------------------------------------------------
(* Values *)

\* the call passes no comparator argument
NoComparator == [name |-> "<none>", rel |-> {}]
\* no SumOfDigits call has returned yet
None == <<>>

MultiDigit == {12, 21}
Values == (-MaxVal..MaxVal) \cup MultiDigit
AnyValues == 0..MaxAnyVal
NestedValues == 1..MaxNestedVal

RECURSIVE SeqsUpTo(_, _)
SeqsUpTo(S, k) ==
    IF k = 0 THEN {<<>>}
    ELSE LET shorter == SeqsUpTo(S, k - 1)
         IN  shorter \cup {Append(s, x) : s \in {t \in shorter : Len(t) = k - 1}, x \in S}

\* main's flat sample containers
vec1D == <<5, 2, 9, 1, 5, 6>>
arr1D == <<234, 56, 123, 12, 345, 678>>
\* main's nested sample containers
vec2D == << <<5, 2, 9>>, <<6, 3, 8>>, <<1, 7, 4>> >>
arr2D == << <<234, 56, 123>>, <<789, 23, 456>>, <<12, 345, 678>> >>
vec3D == << << <<1, 20, 5>>, <<8, 15, 2>> >>,
            << <<30, 12, 4>>, <<7, 10, 11>> >>,
            << <<25, 3, 14>>, <<9, 6, 18>> >> >>

----------------------------------------------------------------------------
(* The comparator functors *)

Abs(x) == IF x < 0 THEN -x ELSE x

\* the C++ remainder x % m for m > 0: truncated division, the sign of x
CRem(x, m) == IF x >= 0 THEN x % m ELSE -((-x) % m)

OddFirst(x, y) ==
    IF CRem(x, 2) # 0 /\ CRem(y, 2) = 0 THEN FALSE
    ELSE IF CRem(x, 2) = 0 /\ CRem(y, 2) # 0 THEN TRUE
    ELSE x < y

DivisibleBy3First(x, y) ==
    IF CRem(x, 3) = 0 /\ CRem(y, 3) # 0 THEN FALSE
    ELSE IF CRem(x, 3) # 0 /\ CRem(y, 3) = 0 THEN TRUE
    ELSE x < y

EvenFirst(x, y) ==
    IF CRem(x, 2) = 0 /\ CRem(y, 2) # 0 THEN FALSE
    ELSE IF CRem(x, 2) # 0 /\ CRem(y, 2) = 0 THEN TRUE
    ELSE x < y

\* the loop of sumDigits: while (n > 0) { sum += n % 10; n /= 10; }
RECURSIVE sumDigitsLoop(_, _)
sumDigitsLoop(m, sum) ==
    IF m > 0 THEN sumDigitsLoop(m \div 10, sum + (m % 10)) ELSE sum

sumDigits(m) == sumDigitsLoop(m, 0)

SumOfDigits(x, y) == sumDigits(x) < sumDigits(y)

\* faulty variant: the default comparator compares as std::less
StdGreater_AsLess(x, y) == x < y

\* std::greater<int>, the default Comparator
StdGreater(x, y) == x > y

\* main's lambdas
LambdaLess(x, y) == x < y
LambdaProximity(x, y) == Abs(x - 10) > Abs(y - 10)

Functors == {"OddFirst", "EvenFirst", "DivisibleBy3First", "SumOfDigits"}
Lambdas == {"LambdaLess", "LambdaProximity"}
\* an arbitrary caller-supplied predicate: the set of pairs it answers true on
Tables == {[name |-> "table", rel |-> r] : r \in SUBSET (AnyValues \X AnyValues)}
Named(c) == [name |-> c, rel |-> {}]

\* Comparator compare = Comparator(), Comparator = std::greater<value_type>
DefaultComparator(g) == IF g = NoComparator THEN Named("std::greater") ELSE g

\* compare(x, y) for the comparator c
Compare(c, x, y) ==
    CASE c.name = "OddFirst"          -> OddFirst(x, y)
      [] c.name = "EvenFirst"         -> EvenFirst(x, y)
      [] c.name = "DivisibleBy3First" -> DivisibleBy3First(x, y)
      [] c.name = "SumOfDigits"       -> SumOfDigits(x, y)
      [] c.name = "std::greater"      -> StdGreater(x, y)
      [] c.name = "LambdaLess"        -> LambdaLess(x, y)
      [] c.name = "LambdaProximity"   -> LambdaProximity(x, y)
      [] c.name = "table"             -> <<x, y>> \in c.rel

----------------------------------------------------------------------------
(* Containers *)

\* the element of the nested container t at path p
RECURSIVE Get(_, _)
Get(t, p) == IF p = <<>> THEN t ELSE Get(t[Head(p)], Tail(p))

\* t with the element at path p replaced by v
RECURSIVE Put(_, _, _)
Put(t, p, v) ==
    IF p = <<>> THEN v ELSE [t EXCEPT ![Head(p)] = Put(t[Head(p)], Tail(p), v)]

\* the container the running bubbleSort works on
holder == Get(root, stack)

\* faulty variant: the exchange copies *next over *it and loses *it
Swap_Overwrite(s, p, q) == [s EXCEPT ![p] = s[q]]

\* std::swap(*it, *next)
Swap(s, p, q) == [s EXCEPT ![p] = s[q], ![q] = s[p]]

\* is_container<typename Container::value_type>::value for a container of depth d
is_container_value_type(d) == d > 1

----------------------------------------------------------------------------
(* recursiveSort and bubbleSort *)

\* bubbleSort returns: to main, or to the recursiveSort that called it
BubbleReturnTo == IF entry = "bubbleSort" THEN "done" ELSE "return"

\* recursiveSort(container, compare), lines 221-234: descend into the first
\* subContainer, or call bubbleSort on a container of scalars
RecursiveSort ==
    /\ pc = "recursiveSort"
    /\ IF is_container_value_type(depth - Len(stack))
       THEN IF Len(holder) > 0
            THEN /\ stack' = Append(stack, 1)
                 /\ pc' = "recursiveSort"
            ELSE /\ stack' = stack
                 /\ pc' = "return"
       ELSE /\ stack' = stack
            /\ pc' = "bubbleSort"
    /\ UNCHANGED <<root, depth, given, compare, entry, root0, sortVars, printVars, digitVars>>

\* faulty variant: the range-for stops one subContainer early
HasNextSubContainer_SkipLast(parent, k) == k + 1 < Len(Get(root, parent))

\* line 226: the range-for over the container at path parent has a subContainer
\* after the k-th
HasNextSubContainer(parent, k) == k < Len(Get(root, parent))

\* a recursiveSort call returns: main continues, or the caller's range-for
\* (line 226) takes the next subContainer or ends
Return ==
    /\ pc = "return"
    /\ IF stack = <<>>
       THEN /\ pc' = "done"
            /\ stack' = stack
       ELSE LET parent == SubSeq(stack, 1, Len(stack) - 1)
                k == stack[Len(stack)]
            IN  IF HasNextSubContainer(parent, k)
                THEN /\ stack' = Append(parent, k + 1)
                     /\ pc' = "recursiveSort"
                ELSE /\ stack' = parent
                     /\ pc' = "return"
    /\ UNCHANGED <<root, depth, given, compare, entry, root0, sortVars, printVars, digitVars>>

\* lines 189-191: n = distance(begin, end); if (n < 2) return;
BubbleEnter ==
    /\ pc = "bubbleSort"
    /\ n' = Len(holder)
    /\ i' = 0
    /\ j' = 0
    /\ it' = 0
    /\ swapped' = FALSE
    /\ called' = holder
    /\ origin' = [k \in 1..Len(holder) |-> k]
    /\ passLog' = <<>>
    /\ comparisons' = 0
    /\ pc' = IF Len(holder) < 2 THEN BubbleReturnTo ELSE "outer"
    /\ UNCHANGED <<root, depth, given, compare, entry, stack, root0, printVars, digitVars>>

\* the outer loop runs while i < n - 1 (line 194)
OuterLimit == n - 1

\* faulty variant: the inner loop stops one pair early
InnerLimit_OffByOne == n - i - 2

\* the inner loop runs while j < n - i - 1 (line 198)
InnerLimit == n - i - 1

\* line 194, the outer loop's test, and lines 196-198, the start of a pass
OuterTest ==
    /\ pc = "outer"
    /\ IF i < OuterLimit
       THEN /\ swapped' = FALSE
            /\ it' = 1
            /\ j' = 0
            /\ passLog' = Append(passLog, 0)
            /\ pc' = "inner"
       ELSE /\ pc' = BubbleReturnTo
            /\ UNCHANGED <<swapped, it, j, passLog>>
    /\ UNCHANGED <<root, depth, given, compare, entry, stack, root0, n, i, called, origin,
                   comparisons, printVars, digitVars>>

\* faulty variant: the comparator is called with its arguments exchanged
ShouldExchange_Reversed(x, y) == Compare(compare, y, x)

\* line 201: if (compare(*it, *next))
ShouldExchange(x, y) == Compare(compare, x, y)

\* lines 198-207: one iteration of the inner loop, or its end
InnerStep ==
    /\ pc = "inner"
    /\ IF j < InnerLimit
       THEN LET next == it + 1
                exchange == ShouldExchange(holder[it], holder[next])
            IN  /\ root' = IF exchange THEN Put(root, stack, Swap(holder, it, next)) ELSE root
                /\ origin' = IF exchange THEN Swap(origin, it, next) ELSE origin
                /\ swapped' = (swapped \/ exchange)
                /\ passLog' = IF exchange
                              THEN [passLog EXCEPT ![Len(passLog)] = @ + 1]
                              ELSE passLog
                /\ comparisons' = comparisons + 1
                /\ it' = next
                /\ j' = j + 1
                /\ pc' = "inner"
       ELSE /\ pc' = "pass_end"
            /\ UNCHANGED <<root, origin, swapped, passLog, comparisons, it, j>>
    /\ UNCHANGED <<depth, given, compare, entry, stack, root0, n, i, called,
                   printVars, digitVars>>

\* faulty variant: no early exit, every pass is followed by the outer loop's test
PassEnd_NoBreak ==
    /\ pc = "pass_end"
    /\ i' = i + 1
    /\ pc' = "outer"
    /\ UNCHANGED <<root, depth, given, compare, entry, stack, root0, n, j, it, swapped,
                   called, origin, passLog, comparisons, printVars, digitVars>>

\* line 208: if (!swapped) break; then ++i of line 194
PassEnd ==
    /\ pc = "pass_end"
    /\ IF ~swapped
       THEN /\ pc' = BubbleReturnTo
            /\ i' = i
       ELSE /\ i' = i + 1
            /\ pc' = "outer"
    /\ UNCHANGED <<root, depth, given, compare, entry, stack, root0, n, j, it, swapped,
                   called, origin, passLog, comparisons, printVars, digitVars>>

NextSort == RecursiveSort \/ Return \/ BubbleEnter \/ OuterTest \/ InnerStep \/ PassEnd

\* main builds a container and calls f on it with the comparator argument g
CallSort(c, d, g, f) ==
    /\ root = c
    /\ root0 = c
    /\ depth = d
    /\ given = g
    /\ compare = DefaultComparator(g)
    /\ entry = f
    /\ pc = f
    /\ stack = <<>>
    /\ n = 0 /\ i = 0 /\ j = 0 /\ it = 0 /\ swapped = FALSE
    /\ called = <<>>
    /\ origin = <<>>
    /\ passLog = <<>>
    /\ comparisons = 0
    /\ out = <<>> /\ depths = <<>> /\ marks = <<>>
    /\ a = 0 /\ b = 0 /\ result = None

FlatInputs == SeqsUpTo(Values, MaxLen) \cup {vec1D, arr1D, arr2D[1]}
FlatComparators == {Named(c) : c \in Functors \cup Lambdas} \cup {NoComparator}

\* a flat container sorted with one of the program's comparators
InitFlat ==
    \E c \in FlatInputs, g \in FlatComparators, f \in {"recursiveSort", "bubbleSort"} :
        CallSort(c, 1, g, f)

Spec == InitFlat /\ [][NextSort]_vars

\* bubbleSort called directly on a flat container with an arbitrary predicate
NextBubble == BubbleEnter \/ OuterTest \/ InnerStep \/ PassEnd

InitAny ==
    \E c \in SeqsUpTo(AnyValues, MaxLen), g \in Tables : CallSort(c, 1, g, "bubbleSort")

SpecAny == InitAny /\ [][NextBubble]_vars

----------------------------------------------------------------------------
(* Nested containers *)

\* the number of scalars and containers inside the container t of depth d
RECURSIVE Nodes(_, _)
Nodes(t, d) ==
    IF d = 1 THEN Len(t)
    ELSE LET RECURSIVE Sum(_)
             Sum(k) == IF k = 0 THEN 0 ELSE 1 + Nodes(t[k], d - 1) + Sum(k - 1)
         IN  Sum(Len(t))

\* the containers of depth d over S with at most c scalars and containers inside
RECURSIVE Trees(_, _, _)
Trees(S, d, c) ==
    IF d = 1 THEN SeqsUpTo(S, c)
    ELSE IF c = 0 THEN {<<>>}
    ELSE {<<>>} \cup
         UNION {{<<t>> \o r : r \in Trees(S, d, c - 1 - Nodes(t, d - 1))} :
                   t \in Trees(S, d - 1, c - 1)}

\* the paths of the containers in the container t of depth d (itself: <<>>)
RECURSIVE Paths(_, _)
Paths(t, d) ==
    IF d = 1 THEN {<<>>}
    ELSE {<<>>} \cup UNION {{<<k>> \o p : p \in Paths(t[k], d - 1)} : k \in 1..Len(t)}

\* the paths of the containers of scalars in t
LeafPaths(t, d) == {p \in Paths(t, d) : Len(p) = d - 1}

NestedInputs ==
    [d \in 2..3 |-> Trees(NestedValues, d, MaxNodes)
                      \cup (IF d = 2 THEN {vec2D, arr2D} ELSE {vec3D})]

\* a nested container sorted by recursiveSort with one of the program's comparators
InitNested ==
    \E d \in 2..3 : \E c \in NestedInputs[d], g \in FlatComparators :
        CallSort(c, d, g, "recursiveSort")

SpecNested == InitNested /\ [][NextSort]_vars

\* every sort call above
SpecSort == (InitFlat \/ InitAny \/ InitNested) /\ [][NextSort]_vars

----------------------------------------------------------------------------
(* printNDVector *)

\* std::string(k, ' ')
RECURSIVE Spaces(_)
Spaces(k) == IF k <= 0 THEN <<>> ELSE <<" ">> \o Spaces(k - 1)

DigitChar(k) == <<"0", "1", "2", "3", "4", "5", "6", "7", "8", "9">>[k + 1]

\* std::cout << holder for an int: a '-' for a negative value, then the decimal
\* digits, most significant first
RECURSIVE Digits(_)
Digits(m) == IF m < 10 THEN <<DigitChar(m)>> ELSE Digits(m \div 10) \o <<DigitChar(m % 10)>>
Decimal(x) == IF x < 0 THEN <<"-">> \o Digits(-x) ELSE Digits(x)

\* std::string(depth * 4, ' ')
Indent(d) == Spaces(d * 4)

\* faulty variant: the recursive call passes its own depth on
ChildDepth_Same(d) == d

\* the depth argument of the recursive call, line 171
ChildDepth(d) == d + 1

\* the depth argument of the running printNDVector call
currentDepth == depths[Len(depths)]

\* the scalar overload, line 152
PrintScalar ==
    /\ pc = "printNDVector"
    /\ depth - Len(stack) = 0
    /\ out' = out \o Indent(currentDepth) \o Decimal(holder)
    /\ marks' = Append(marks, [at |-> Len(out) + Len(Indent(currentDepth)) + 1,
                               nesting |-> Len(stack)])
    /\ pc' = "printed"
    /\ UNCHANGED <<root, depth, given, compare, entry, stack, root0, depths,
                   sortVars, digitVars>>

\* the container overload, line 167 and the first turn of the loop of line 169
PrintOpen ==
    /\ pc = "printNDVector"
    /\ depth - Len(stack) > 0
    /\ out' = out \o Indent(currentDepth) \o <<"\n", "{">>
    /\ IF Len(holder) > 0
       THEN /\ stack' = Append(stack, 1)
            /\ depths' = Append(depths, ChildDepth(currentDepth))
            /\ pc' = "printNDVector"
       ELSE /\ pc' = "close"
            /\ UNCHANGED <<stack, depths>>
    /\ UNCHANGED <<root, depth, given, compare, entry, root0, marks, sortVars, digitVars>>

\* the container overload, line 175
PrintClose ==
    /\ pc = "close"
    /\ out' = out \o Indent(currentDepth) \o <<"}", "\n">>
    /\ pc' = "printed"
    /\ UNCHANGED <<root, depth, given, compare, entry, stack, root0, depths, marks,
                   sortVars, digitVars>>

\* a printNDVector call returns: main continues, or the caller's loop (line 169)
\* prints the next subHolder or ends
PrintReturn ==
    /\ pc = "printed"
    /\ IF stack = <<>>
       THEN /\ pc' = "done"
            /\ UNCHANGED <<stack, depths>>
       ELSE LET parent == SubSeq(stack, 1, Len(stack) - 1)
                callers == SubSeq(depths, 1, Len(depths) - 1)
                k == stack[Len(stack)]
            IN  IF k < Len(Get(root, parent))
                THEN /\ stack' = Append(parent, k + 1)
                     /\ depths' = Append(callers, ChildDepth(callers[Len(callers)]))
                     /\ pc' = "printNDVector"
                ELSE /\ stack' = parent
                     /\ depths' = callers
                     /\ pc' = "close"
    /\ UNCHANGED <<root, depth, given, compare, entry, root0, out, marks,
                   sortVars, digitVars>>

NextPrint == PrintScalar \/ PrintOpen \/ PrintClose \/ PrintReturn

\* main calls printNDVector(c) for c of depth d, with the default depth = 0
CallPrint(c, d) ==
    /\ root = c
    /\ root0 = c
    /\ depth = d
    /\ given = NoComparator
    /\ compare = NoComparator
    /\ entry = "printNDVector"
    /\ pc = "printNDVector"
    /\ stack = <<>>
    /\ n = 0 /\ i = 0 /\ j = 0 /\ it = 0 /\ swapped = FALSE
    /\ called = <<>>
    /\ origin = <<>>
    /\ passLog = <<>>
    /\ comparisons = 0
    /\ out = <<>>
    /\ depths = <<0>>
    /\ marks = <<>>
    /\ a = 0 /\ b = 0 /\ result = None

PrintInputs ==
    [d \in 0..3 |->
        CASE d = 0 -> Values
          [] d = 1 -> Trees(NestedValues, 1, MaxNodes) \cup {vec1D, arr1D}
          [] OTHER -> NestedInputs[d]]

InitPrint == \E d \in 0..3 : \E c \in PrintInputs[d] : CallPrint(c, d)

SpecPrint == InitPrint /\ [][NextPrint]_vars

----------------------------------------------------------------------------
(* One call of SumOfDigits *)

DigitArgs == (-MaxDigitArg)..MaxDigitArg

\* SumOfDigits()(a, b), with the two sums it compares
CallSumOfDigits ==
    /\ pc = "SumOfDigits"
    /\ result' = [sumA |-> sumDigits(a), sumB |-> sumDigits(b), less |-> SumOfDigits(a, b)]
    /\ pc' = "done"
    /\ UNCHANGED <<root, depth, given, compare, entry, stack, root0, a, b,
                   sortVars, printVars>>

InitDigits ==
    /\ a \in DigitArgs
    /\ b \in DigitArgs
    /\ result = None
    /\ root = <<>> /\ root0 = <<>> /\ depth = 1
    /\ given = Named("SumOfDigits")
    /\ compare = Named("SumOfDigits")
    /\ entry = "SumOfDigits"
    /\ pc = "SumOfDigits"
    /\ stack = <<>>
    /\ n = 0 /\ i = 0 /\ j = 0 /\ it = 0 /\ swapped = FALSE
    /\ called = <<>>
    /\ origin = <<>>
    /\ passLog = <<>>
    /\ comparisons = 0
    /\ out = <<>> /\ depths = <<>> /\ marks = <<>>

SpecDigits == InitDigits /\ [][CallSumOfDigits]_vars

----------------------------------------------------------------------------
(* Properties of a flat sort *)

\* compare is false on every adjacent pair of s
Ordered(c, s) == \A k \in 1..(Len(s) - 1) : ~Compare(c, s[k], s[k + 1])

\* s is in non-decreasing order of key
NonDecreasing(s, key(_)) == \A k \in 1..(Len(s) - 1) : key(s[k]) <= key(s[k + 1])

\* every element of s satisfying first comes before every element that does not
GroupFirst(s, first(_)) ==
    \A p, q \in 1..Len(s) : (first(s[q]) /\ ~first(s[p])) => q < p

\* the elements of s satisfying keep, in order
Only(s, keep(_)) == SelectSeq(s, keep)

Identity(x) == x
IsOdd(x) == x % 2 = 1
IsEven(x) == x % 2 = 0
IsDivisibleBy3(x) == x % 3 = 0
\* the sum of the base-10 digits of |x|
RECURSIVE DigitSum(_)
DigitSum(x) == IF Abs(x) < 10 THEN Abs(x) ELSE (Abs(x) % 10) + DigitSum(Abs(x) \div 10)

\* a bubbleSort call has just returned; holder is the container it worked on
AfterBubble ==
    \/ pc = "return" /\ ~is_container_value_type(depth - Len(stack))
    \/ pc = "done" /\ depth = 1

----------------------------------------------------------------------------
(* Claims about a flat sort: specification Spec *)

\* C1. Order establishment: when bubbleSort returns from a call with OddFirst,
\* EvenFirst, DivisibleBy3First, SumOfDigits or the default std::greater,
\* compare(x, y) is false for every pair of adjacent elements x, y of the
\* sequence.
C1_OrderEstablished ==
    (AfterBubble /\ compare.name \in Functors \cup {"std::greater"})
        => Ordered(compare, holder)

\* a SumOfDigits sort of three elements that needed exchanges in two passes
C1_Witness ==
    /\ AfterBubble
    /\ compare.name = "SumOfDigits"
    /\ Len(holder) = 3
    /\ Len(passLog) = 2
    /\ passLog[1] > 0 /\ passLog[2] > 0
    /\ Ordered(compare, holder)

\* C4. Default ordering is ascending: a flat sequence sorted by bubbleSort or
\* recursiveSort without a comparator argument is left in non-decreasing
\* numeric order; [5,2,9,1,5,6] becomes 1 2 5 5 6 9.
C4_DefaultAscending ==
    (pc = "done" /\ given = NoComparator)
        => /\ NonDecreasing(root, Identity)
           /\ root0 = vec1D => root = <<1, 2, 5, 5, 6, 9>>

\* recursiveSort(vec1D) with no comparator argument has returned
C4_Witness ==
    /\ pc = "done"
    /\ given = NoComparator
    /\ entry = "recursiveSort"
    /\ root0 = vec1D
    /\ root = <<1, 2, 5, 5, 6, 9>>

\* the group a group-first functor prefers
Preferred(c, x) ==
    CASE c.name = "OddFirst"          -> IsOdd(x)
      [] c.name = "EvenFirst"         -> IsEven(x)
      [] c.name = "DivisibleBy3First" -> IsDivisibleBy3(x)

\* C5. Group-first strategies: sorting a flat sequence with OddFirst, EvenFirst
\* or DivisibleBy3First places every element of the preferred group before
\* every other element, and each group is in ascending numeric order; with
\* OddFirst [5,2,9,1,5,6] becomes 1 5 5 9 2 6.
C5_GroupFirstAscending ==
    (pc = "done" /\ compare.name \in {"OddFirst", "EvenFirst", "DivisibleBy3First"})
        => LET InGroup(x) == Preferred(compare, x)
               NotInGroup(x) == ~Preferred(compare, x)
           IN  /\ GroupFirst(root, InGroup)
               /\ NonDecreasing(Only(root, InGroup), Identity)
               /\ NonDecreasing(Only(root, NotInGroup), Identity)
               /\ (compare.name = "OddFirst" /\ root0 = vec1D)
                      => root = <<1, 5, 5, 9, 2, 6>>

\* C6. SumOfDigits orders ascending by digit sum: sorting a flat sequence of
\* non-negative integers with SumOfDigits leaves the digit sums of the elements
\* in non-decreasing order; [234,56,123] becomes 123 234 56.
C6_DigitSumAscending ==
    (/\ pc = "done"
     /\ compare.name = "SumOfDigits"
     /\ \A k \in 1..Len(root0) : root0[k] >= 0)
        => /\ NonDecreasing(root, DigitSum)
           /\ root0 = <<234, 56, 123>> => root = <<123, 234, 56>>

\* C8. Early exit and idempotence: a pass with zero exchanges is the last pass
\* of its bubbleSort call; and on a sequence of length n >= 2 whose adjacent
\* pairs all have compare false, bubbleSort makes exactly one pass of n-1
\* comparisons, performs no exchange and leaves the sequence unchanged.
C8_EarlyExit ==
    /\ \A k \in 1..Len(passLog) :
          (passLog[k] = 0 /\ ~(k = Len(passLog) /\ pc = "inner")) =>
              /\ k = Len(passLog)
              /\ pc \in {"pass_end", "return", "done"}
    /\ (AfterBubble /\ Len(called) >= 2 /\ Ordered(compare, called))
          => /\ Len(passLog) = 1
             /\ passLog[1] = 0
             /\ comparisons = Len(called) - 1
             /\ holder = called

\* bubbleSort returned after one pass over three distinct, already ordered elements
C8_Witness ==
    /\ AfterBubble
    /\ Len(called) = 3
    /\ Cardinality({called[k] : k \in 1..3}) = 3
    /\ Ordered(compare, called)
    /\ passLog = <<0>>
    /\ comparisons = 2
    /\ holder = called

----------------------------------------------------------------------------
(* Claims about every sort: specification SpecSort *)

\* the multiset of the elements of s
BagOf(s) == [x \in {s[k] : k \in 1..Len(s)} |-> Cardinality({k \in 1..Len(s) : s[k] = x})]

\* the containers of root are where they were at the call
SameShape == Paths(root, depth) = Paths(root0, depth)

\* each container of scalars holds the multiset it held at the call
SameLeafBags ==
    \A p \in LeafPaths(root0, depth) : BagOf(Get(root, p)) = BagOf(Get(root0, p))

\* a step that changes root exchanges two adjacent elements of one container of scalars
AdjacentExchange ==
    root' # root =>
        \E p \in LeafPaths(root, depth) :
            \E k \in 1..(Len(Get(root, p)) - 1) :
                root' = Put(root, p, Swap(Get(root, p), k, k + 1))

\* C2. Permutation invariance: for any comparator and input, in every state
\* during bubbleSort or recursiveSort and at return each flat sequence holds the
\* multiset of elements (and so the length) it held at the call, and the only
\* mutation is the exchange of two adjacent elements.
C2_Permutation == [](SameShape /\ SameLeafBags) /\ [][AdjacentExchange]_vars

\* a sort with an inconsistent predicate (true on (0,1) and (1,0)) has returned
\* after exchanging elements
C2_Witness ==
    /\ pc = "done"
    /\ compare.name = "table"
    /\ {<<0, 1>>, <<1, 0>>} \subseteq compare.rel
    /\ root # root0
    /\ SameLeafBags

----------------------------------------------------------------------------
(* Claims about a nested sort: specification SpecNested *)

\* C3. Recursive uniformity: after recursiveSort on a nested container of depth
\* 2 or 3 the sub-containers at every intermediate level are where they were,
\* the leaf at each path is a permutation of the leaf that was at that path, and
\* every leaf has compare false on all its adjacent pairs.
C3_RecursiveUniformity ==
    (pc = "done" /\ depth \in 2..3)
        => /\ SameShape
           /\ SameLeafBags
           /\ \A p \in LeafPaths(root, depth) : Ordered(compare, Get(root, p))

\* recursiveSort(vec3D) has returned and reordered the last leaf
C3_Witness ==
    /\ pc = "done"
    /\ depth = 3
    /\ root0 = vec3D
    /\ Get(root, <<3, 2>>) # Get(root0, <<3, 2>>)
    /\ Get(root, <<1, 1>>) # Get(root0, <<1, 1>>)

----------------------------------------------------------------------------
(* Claims about bubbleSort with an arbitrary predicate: specification SpecAny *)

\* the position in holder of the element that was at position p at the call
PositionOf(p) == CHOOSE k \in 1..Len(origin) : origin[k] = p

\* a step of a running bubbleSort that reorders holder exchanges two adjacent
\* elements on which compare(left, right) is true
ExchangeOnCompare ==
    (pc # "bubbleSort" /\ origin' # origin) =>
        \E k \in 1..(Len(holder) - 1) :
            /\ Compare(compare, holder[k], holder[k + 1])
            /\ origin' = Swap(origin, k, k + 1)
            /\ root' = Put(root, stack, Swap(holder, k, k + 1))

\* x before y at the call and compare(x, y) false: x is still before y
KeepsOrder ==
    \A p, q \in 1..Len(origin) :
        (p < q /\ ~Compare(compare, called[p], called[q])) => PositionOf(p) < PositionOf(q)

\* C10. Implicit stability: bubbleSort inverts the relative order of two
\* elements only by exchanging them while adjacent with compare(left, right)
\* true; so an element x before y in the input with compare(x, y) false is
\* before y in the output, and elements that tie keep their input order.
C10_Stable == []KeepsOrder /\ [][ExchangeOnCompare]_vars

\* bubbleSort returned after exchanges, and two tied equal elements are in the
\* order they came in
C10_Witness ==
    /\ pc = "done"
    /\ Len(called) = 3
    /\ holder # called
    /\ \E p, q \in 1..3 :
          /\ p < q
          /\ called[p] = called[q]
          /\ ~Compare(compare, called[p], called[q])
          /\ PositionOf(p) < PositionOf(q)
          /\ PositionOf(p) # p

----------------------------------------------------------------------------
(* Claims about printNDVector: specification SpecPrint *)

\* the number of '{' not yet closed by a '}' in the first k characters of out
OpenAt(k) ==
    Cardinality({m \in 1..k : out[m] = "{"}) - Cardinality({m \in 1..k : out[m] = "}"})

Count(ch) == Cardinality({k \in 1..Len(out) : out[k] = ch})

\* the scalar printed at m.at, at nesting depth m.nesting, follows exactly
\* 4 * m.nesting spaces, inside m.nesting open brackets
MarkIndented(m) ==
    LET first == m.at - 4 * m.nesting
    IN  /\ first >= 1
        /\ \A k \in first..(m.at - 1) : out[k] = " "
        /\ first > 1 => out[first - 1] # " "
        /\ out[m.at] # " "
        /\ OpenAt(m.at - 1) = m.nesting

\* the containers in root
Containers == IF depth = 0 THEN {} ELSE Paths(root, depth)

\* the scalars in root
Scalars == IF depth = 0 THEN 1 ELSE Nodes(root, depth) - (Cardinality(Containers) - 1)

\* C9. Depth-faithful printing: in the stream printNDVector (depth 0) emits,
\* every scalar at nesting depth d is immediately preceded by exactly 4*d
\* spaces, with d brackets '{' open at that moment; every '{' is closed by
\* exactly one '}'; an empty container emits one '{' and one '}' and no scalar.
C9_DepthFaithful ==
    /\ \A k \in 1..Len(marks) : MarkIndented(marks[k])
    /\ pc = "done" =>
          /\ \A k \in 0..Len(out) : OpenAt(k) >= 0
          /\ OpenAt(Len(out)) = 0
          /\ Count("{") = Cardinality(Containers)
          /\ Count("}") = Cardinality(Containers)
          /\ Len(marks) = Scalars
          /\ (depth > 0 /\ root = <<>>) => (Count("{") = 1 /\ marks = <<>>)

\* a container of depth 3 is printed: a scalar at nesting depth 3 after a
\* sibling scalar, and an empty container beside them
C9_Witness ==
    /\ pc = "done"
    /\ depth = 3
    /\ Len(marks) >= 2
    /\ marks[2].nesting = 3
    /\ out[marks[2].at - 13] \in {"1", "2"}
    /\ \E p \in Containers : p # <<>> /\ Get(root, p) = <<>>

----------------------------------------------------------------------------
(* Claims about SumOfDigits: specification SpecDigits *)

\* C7. SumOfDigits is sign-insensitive: sumDigits(-n) = sumDigits(n), the sum
\* of the base-10 digits of |n|, so SumOfDigits(a, b) answers as
\* SumOfDigits(|a|, |b|), and only 0 has digit sum 0.
C7_SignInsensitive ==
    result # None =>
        /\ result.sumA = DigitSum(a)
        /\ result.sumA = sumDigits(-a)
        /\ result.less = (DigitSum(a) < DigitSum(b))
        /\ result.sumA = 0 => a = 0

====
